---- MODULE Spec2Model ----
(***************************************************************************)
(* Frame detection pipeline of the exam proctor extension.                 *)
(*                                                                         *)
(*   YOLOWorker       src/yolo-worker.js      (dedicated worker)           *)
(*   YOLOModelLoader  src/unnamed/part_006    (in-page loader)             *)
(*                                                                         *)
(* The worker is a single JavaScript event loop.  One action of the model  *)
(* is one task of that loop together with the microtasks it drains: an     *)
(* async function runs synchronously up to its first await on a pending    *)
(* promise, and an await on an already settled promise resumes before the  *)
(* next task starts.  The only promise that stays pending across tasks is  *)
(* the 50 ms timer inside runInference.                                    *)
(*                                                                         *)
(* The loader lives in a page and shares no state with the worker, so a    *)
(* behaviour follows one of the two objects: context tells which.          *)
(*                                                                         *)
(* Thresholds and confidences are in hundredths (0.5 is 50).               *)
(***************************************************************************)
EXTENDS Integers, Sequences, FiniteSets, TLC

\* ------------------------------------------------------------------ bounds
MaxFrames == 3        \* processFrame messages delivered to the worker
MaxUpdates == 1       \* updateThresholds messages delivered to the worker
MaxLoads == 2         \* loadModel calls on the loader
MaxInfos == 1         \* getModelInfo messages delivered to the worker
MaxInferences == 1    \* runInference calls on the loader
MaxCoord == 1         \* function bench: box positions are 0..MaxCoord
MaxSide == 2          \* function bench: box widths and heights are 0..MaxSide
MaxListLen == 3       \* function bench: longest detection list passed in
MaxRows == 2          \* function bench: most rows of an output tensor
InputSize == 2        \* side of the resized image, 640 in the code

\* --------------------------------------------------------- program constants
DefaultConfidence == 50
DefaultNms == 40
MinThreshold == 10
MaxThreshold == 100

\* ------------------------------------------------------------------- inputs
\* The data of an updateThresholds message: confidence and nms are each
\* present or undefined; the values lie below 0.1 and above 1.0.
ThresholdMsgs ==
    {<<>>, [confidence |-> 500], [nms |-> -300], [confidence |-> 500, nms |-> -300]}

\* The data of a processFrame message.  len is data.length; the repository's
\* caller sends no id, a caller following the message table sends one.
FrameDatas ==
    {[width |-> 1, height |-> 1, len |-> 4],
     [width |-> 1, height |-> 1, len |-> 3, id |-> 1]}

\* Math.random().toString(36).substr(2, 9)
RandomIds == {1, 2}

\* Values Date.now() returns; it never runs backwards.
Timestamps == {0, 1}

\* Values a page may pass to the loader as a threshold.
LoaderThresholdInputs == {-300, 70, 500}

LoaderThresholdMsgs ==
    UNION {[S -> LoaderThresholdInputs] : S \in SUBSET {"confidence", "nms"}}

\* ------------------------------------------------- inputs of the function bench
\* Sequences over S of length at most n.
SeqsUpTo(S, n) == UNION {[1..k -> S] : k \in 0..n}

\* updateThresholds arguments: an nms some boxes meet exactly, a confidence
\* between two scores, and values outside [0.1, 1.0].
BenchThresholdMsgs ==
    {[nms |-> 50], [confidence |-> 70], [confidence |-> 500, nms |-> -300]}

\* Rows of an output tensor with two classes: x, y, w, h, score 0, score 1.
\* One class wins, the other wins, both tie, the best score equals 0.5, and
\* all scores are low.
BenchRows ==
    {<<10, 10, 20, 20, 90, 30>>, <<15, 15, 20, 20, 40, 80>>, <<10, 10, 20, 20, 60, 60>>,
     <<200, 200, 20, 20, 50, 10>>, <<10, 10, 20, 20, 20, 30>>}

RECURSIVE Flatten(_)
Flatten(rows) == IF rows = <<>> THEN <<>> ELSE Head(rows) \o Flatten(Tail(rows))

\* Output tensors of up to MaxRows rows, dims [1, 6, rows].
BenchOutputs ==
    {[dims |-> <<1, 6, Len(rows)>>, data |-> Flatten(rows)] :
        rows \in SeqsUpTo(BenchRows, MaxRows)}

\* Boxes [a, b, w, h] on a grid, sides of length 0 included.
BenchBoxes == (0..MaxCoord) \X (0..MaxCoord) \X (0..MaxSide) \X (0..MaxSide)

\* Candidate detections as decode builds them: two concentric boxes whose
\* IoU is one half, a copy of the larger one with the confidence of the
\* smaller, a box far from the others, and a chain of three boxes in which
\* neighbours have IoU 1/2 and the two outer ones 1/5.  Class 2 (car) is not
\* relevant.
BenchDetections ==
    {[classId |-> d[1], className |-> d[2], confidence |-> d[3], bbox |-> d[4],
      centerX |-> d[4][1], centerY |-> d[4][2], width |-> d[4][3], height |-> d[4][4]] :
        d \in {<<0, "person", 90, <<0, 0, 2, 1>>>>, <<67, "cell phone", 80, <<0, 0, 1, 1>>>>,
               <<2, "car", 80, <<0, 0, 2, 1>>>>, <<0, "person", 60, <<5, 5, 1, 1>>>>,
               <<63, "laptop", 75, <<10, 0, 3, 1>>>>, <<73, "book", 70, <<11, 0, 3, 1>>>>,
               <<41, "cup", 65, <<12, 0, 3, 1>>>>}}

BenchLists == SeqsUpTo(BenchDetections, MaxListLen)

\* Values of Math.random(), in hundredths: it returns a number in [0, 1).
RandomValues == {0, 50, 95}

\* The draws of one mock inference, in call order: shouldDetect, class,
\* confidence, the four of bbox, then centerX, centerY, width, height.
MockDraws ==
    {<<d, c, k, g, g, g, g, h, h, h, h>> :
        d \in {70, 95}, c \in RandomValues, k \in RandomValues,
        g \in RandomValues, h \in RandomValues}

\* Pixels of the resized image as getImageData gives them: red, green,
\* blue, alpha, one byte each.
BenchPixels == {<<255, 0, 51, 255>>, <<0, 255, 102, 128>>}

\* resizedData.data of an InputSize x InputSize image, row-major.
BenchImages ==
    {Flatten(px) : px \in [1..(InputSize * InputSize) -> BenchPixels]}

VARIABLES
    context,            \* "worker": the YOLOWorker runs; "page": the YOLOModelLoader
    model,              \* YOLOWorker.model
    isModelLoaded,      \* YOLOWorker.isModelLoaded
    processingQueue,    \* YOLOWorker.processingQueue
    isProcessing,       \* YOLOWorker.isProcessing
    initDone,           \* init() has run
    handlerInstalled,   \* self.onmessage is set
    loopStarted,        \* the setInterval of startProcessingLoop is active
    awaiting,           \* frames whose processQueue call is suspended in runInference
    pendingTimeouts,    \* setTimeout(() => this.processQueue(), 0) calls not yet run
    outbox,             \* messages posted with self.postMessage, in order
    now,                \* Date.now() as last read
    confidenceThreshold,\* YOLOModelLoader.confidenceThreshold
    nmsThreshold,       \* YOLOModelLoader.nmsThreshold
    loaderModel,        \* YOLOModelLoader.model: 0 for null, else the session's number
    loaderIsModelLoaded,\* YOLOModelLoader.isModelLoaded
    loaderPending,      \* loadModel calls suspended in InferenceSession.create
    loaderEvents,       \* events dispatched on window by emitEvent, in order
    loaderSessions,     \* history: number of sessions created so far
    loaderReleased,     \* history: the sessions release() was called on, in order
    loads,              \* history: number of loadModel calls so far
    loaderInflight,     \* runInference calls suspended in this.model.run
    loaderResults,      \* history: the runInference calls that settled, in order
    inferences,         \* history: number of runInference calls so far
    submitted,          \* history: processFrame messages delivered to the worker
    infos,              \* history: number of getModelInfo messages so far
    call,               \* function bench: the call made last, with its arguments
    result,             \* function bench: what that call returned
    accepted,           \* history: queue entries in the order processFrame pushed them
    answered,           \* history: seq, pos and decode calls of each per-frame event
    updates             \* history: number of updateThresholds calls so far

vars == <<context, model, isModelLoaded, processingQueue, isProcessing, initDone,
          handlerInstalled, loopStarted, awaiting, pendingTimeouts, outbox, now,
          confidenceThreshold, nmsThreshold, loaderModel, loaderIsModelLoaded,
          loaderPending, loaderEvents, loaderSessions, loaderReleased, loads,
          loaderInflight, loaderResults, inferences, submitted, infos, call, result,
          accepted, answered, updates>>

workerVars == <<model, isModelLoaded, processingQueue, isProcessing, initDone,
                handlerInstalled, loopStarted, awaiting, pendingTimeouts, outbox,
                now, accepted, answered, updates, submitted, infos>>

inferVars == <<loaderInflight, loaderResults, inferences>>

loaderVars == <<confidenceThreshold, nmsThreshold, loaderModel, loaderIsModelLoaded,
                loaderPending, loaderEvents, loaderSessions, loaderReleased, loads,
                inferVars>>

benchVars == <<call, result>>

\* this.model = null
NullModel == [isNull |-> TRUE]

\* The object literal of loadYOLOModel.
MockModel ==
    [name |-> "YOLO-v8n-Mock", version |-> "2.0.0",
     inputShape |-> <<1, 3, 640, 640>>, outputShape |-> <<1, 84, 8400>>,
     confidenceThreshold |-> DefaultConfidence, nmsThreshold |-> DefaultNms,
     isMock |-> TRUE]

Init ==
    /\ context \in {"worker", "page"}
    /\ model = NullModel
    /\ isModelLoaded = FALSE
    /\ processingQueue = <<>>
    /\ isProcessing = FALSE
    /\ initDone = FALSE
    /\ handlerInstalled = FALSE
    /\ loopStarted = FALSE
    /\ awaiting = {}
    /\ pendingTimeouts = 0
    /\ outbox = <<>>
    /\ now = 0
    /\ confidenceThreshold = DefaultConfidence
    /\ nmsThreshold = DefaultNms
    /\ loaderModel = 0
    /\ loaderIsModelLoaded = FALSE
    /\ loaderPending = 0
    /\ loaderEvents = <<>>
    /\ loaderSessions = 0
    /\ loaderReleased = <<>>
    /\ loads = 0
    /\ loaderInflight = {}
    /\ loaderResults = <<>>
    /\ inferences = 0
    /\ submitted = 0
    /\ infos = 0
    /\ call = [fn |-> "none"]
    /\ result = <<>>
    /\ accepted = <<>>
    /\ answered = <<>>
    /\ updates = 0

\* ---------------------------------------------------------- pure pipeline
\* preprocessFrame: new ImageData(data, width, height) throws unless
\* data.length is 4 * width * height; the catch rethrows 'Preprocessing failed'.
PreprocessFrame(frameData) ==
    IF frameData.len = 4 * frameData.width * frameData.height
    THEN [ok |-> TRUE]
    ELSE [ok |-> FALSE, error |-> "Preprocessing failed"]

\* const mockClasses = [...]
MockClasses == <<"person", "cell phone", "laptop", "book", "remote", "tv">>

\* The mock branch of runInference with a class table that holds an entry
\* outside the relevance list and a confidence drawn from [0.5, 1.0).
MockInferenceWide(r) ==
    IF ~(r[1] > 70)
    THEN [items |-> <<>>]
    ELSE LET wideClasses == <<"person", "cell phone", "laptop", "book", "remote", "car">>
             index == (r[2] * Len(wideClasses)) \div 100
         IN  [items |-> <<[classId |-> index, className |-> wideClasses[index + 1],
                           confidence |-> 50 + (r[3] * 50) \div 100,
                           bbox |-> <<100 + 2 * r[4], 100 + 2 * r[5], 50 + r[6], 50 + r[7]>>,
                           centerX |-> 200 + 2 * r[8], centerY |-> 200 + 2 * r[9],
                           width |-> 50 + r[10], height |-> 50 + r[11]]>>]

\* The array the mock branch of runInference returns when Math.random()
\* yields the draws r (hundredths), in call order: [] unless the first draw
\* exceeds 0.7, else one detection.  An array has no data or dims.
\* mockClasses.indexOf(randomClass) is the index drawn: the names differ.
MockInference(r) ==
    IF ~(r[1] > 70)
    THEN [items |-> <<>>]
    ELSE LET index == (r[2] * Len(MockClasses)) \div 100
             randomClass == MockClasses[index + 1]
         IN  [items |-> <<[classId |-> index, className |-> randomClass,
                           confidence |-> 50 + (r[3] * 40) \div 100,
                           bbox |-> <<100 + 2 * r[4], 100 + 2 * r[5], 50 + r[6], 50 + r[7]>>,
                           centerX |-> 200 + 2 * r[8], centerY |-> 200 + 2 * r[9],
                           width |-> 50 + r[10], height |-> 50 + r[11]]>>]

\* The arrays the mock branch of runInference can return.
MockDetections == {MockInference(r) : r \in MockDraws}

\* Math.min, Math.max
Min(a, b) == IF a < b THEN a ELSE b
Max(a, b) == IF a > b THEN a ELSE b

\* getClassNames()
ClassNames ==
    <<"person", "bicycle", "car", "motorcycle", "airplane", "bus", "train", "truck", "boat",
      "traffic light", "fire hydrant", "stop sign", "parking meter", "bench", "bird", "cat",
      "dog", "horse", "sheep", "cow", "elephant", "bear", "zebra", "giraffe", "backpack",
      "umbrella", "handbag", "tie", "suitcase", "frisbee", "skis", "snowboard", "sports ball",
      "kite", "baseball bat", "baseball glove", "skateboard", "surfboard", "tennis racket",
      "bottle", "wine glass", "cup", "fork", "knife", "spoon", "bowl", "banana", "apple",
      "sandwich", "orange", "broccoli", "carrot", "hot dog", "pizza", "donut", "cake",
      "chair", "couch", "potted plant", "bed", "dining table", "toilet", "tv", "laptop",
      "mouse", "remote", "keyboard", "cell phone", "microwave", "oven", "toaster", "sink",
      "refrigerator", "book", "clock", "vase", "scissors", "teddy bear", "hair drier",
      "toothbrush">>

\* this.getClassNames()[index], index counted from 0
ClassName(index) ==
    IF index + 1 \in DOMAIN ClassNames THEN ClassNames[index + 1] ELSE "undefined"

\* outputData[k], k counted from 0; a read past the end gives undefined.
Defined(data, k) == k + 1 \in DOMAIN data
At(data, k) == data[k + 1]

\* byte / 255.0, kept as the quotient num / den.
Normalize(byte) == [num |-> byte, den |-> 255]

\* new Float32Array(n): n zeros
ZeroTensor(n) == [k \in 1..n |-> [num |-> 0, den |-> 255]]

\* tensorData[k] = v, k counted from 0; a typed array ignores a write past
\* its end.
Store(tensorData, k, v) ==
    IF k + 1 \in DOMAIN tensorData THEN [tensorData EXCEPT ![k + 1] = v] ELSE tensorData

\* The conversion loop of preprocessFrame from byte offset i on, with the
\* write position at index.
RECURSIVE ConvertFrom(_, _, _, _)
ConvertFrom(data, i, index, tensorData) ==
    IF i >= Len(data)
    THEN tensorData
    ELSE ConvertFrom(data, i + 4, index + 3,
             Store(Store(Store(tensorData, index, Normalize(At(data, i))),
                         index + 1, Normalize(At(data, i + 1))),
                   index + 2, Normalize(At(data, i + 2))))

\* preprocessFrame from resizedData on: the tensor it returns.
ToTensorData(data) ==
    ConvertFrom(data, 0, 0, ZeroTensor(InputSize * InputSize * 3))

\* preprocessImage of the loader from resizedData on; its loop is the
\* worker's, word for word.
LoaderToTensorData(data) ==
    ConvertFrom(data, 0, 0, ZeroTensor(InputSize * InputSize * 3))

\* The inner loop with >= in its comparison: of equal scores the last wins.
RECURSIVE ScanClassesLastWins(_, _, _, _, _)
ScanClassesLastWins(data, base, numClasses, j, best) ==
    IF j >= numClasses
    THEN best
    ELSE LET k == base + 4 + j
             better == Defined(data, k) /\ At(data, k) >= best.maxConfidence
         IN  ScanClassesLastWins(data, base, numClasses, j + 1,
                 IF better
                 THEN [maxConfidence |-> At(data, k), maxClassIndex |-> j]
                 ELSE best)

\* The inner loop of postprocessDetections from class j on; an undefined
\* score is not greater than anything.
RECURSIVE ScanClasses(_, _, _, _, _)
ScanClasses(data, base, numClasses, j, best) ==
    IF j >= numClasses
    THEN best
    ELSE LET k == base + 4 + j
             better == Defined(data, k) /\ At(data, k) > best.maxConfidence
         IN  ScanClasses(data, base, numClasses, j + 1,
                 IF better
                 THEN [maxConfidence |-> At(data, k), maxClassIndex |-> j]
                 ELSE best)

\* The comparison of the worker's decode: if (maxConfidence > 0.5)
DecodeThreshold == 50

\* The outer loop of postprocessDetections from row i on: the detections
\* pushed, in row order.
RECURSIVE DecodeFrom(_, _)
DecodeFrom(output, i) ==
    IF i >= output.dims[3]
    THEN <<>>
    ELSE LET base == i * output.dims[2]
             best == ScanClasses(output.data, base, output.dims[2] - 4, 0,
                                 [maxConfidence |-> 0, maxClassIndex |-> 0])
             x == At(output.data, base)
             y == At(output.data, base + 1)
             w == At(output.data, base + 2)
             h == At(output.data, base + 3)
         IN  (IF best.maxConfidence > DecodeThreshold
              THEN <<[classId |-> best.maxClassIndex,
                      className |-> ClassName(best.maxClassIndex),
                      confidence |-> best.maxConfidence,
                      bbox |-> <<x, y, w, h>>,
                      centerX |-> x, centerY |-> y, width |-> w, height |-> h]>>
              ELSE <<>>)
             \o DecodeFrom(output, i + 1)

\* calculateIOU with the area of the first box taken for both.
CalculateIOUFirstArea(bbox1, bbox2) ==
    LET x1 == bbox1[1]  y1 == bbox1[2]  w1 == bbox1[3]  h1 == bbox1[4]
        x2 == bbox2[1]  y2 == bbox2[2]  w2 == bbox2[3]  h2 == bbox2[4]
        intersectionW == Min(x1 + w1, x2 + w2) - Max(x1, x2)
        intersectionH == Min(y1 + h1, y2 + h2) - Max(y1, y2)
        intersectionArea == intersectionW * intersectionH
    IN  IF intersectionW <= 0 \/ intersectionH <= 0
        THEN [num |-> 0, den |-> 1]
        ELSE [num |-> intersectionArea,
              den |-> (w1 * h1) + (w1 * h1) - intersectionArea]

\* calculateIOU of the worker; the quotient is kept as num / den.
CalculateIOU(bbox1, bbox2) ==
    LET x1 == bbox1[1]  y1 == bbox1[2]  w1 == bbox1[3]  h1 == bbox1[4]
        x2 == bbox2[1]  y2 == bbox2[2]  w2 == bbox2[3]  h2 == bbox2[4]
        intersectionX == Max(x1, x2)
        intersectionY == Max(y1, y2)
        intersectionW == Min(x1 + w1, x2 + w2) - intersectionX
        intersectionH == Min(y1 + h1, y2 + h2) - intersectionY
        intersectionArea == intersectionW * intersectionH
        unionArea == (w1 * h1) + (w2 * h2) - intersectionArea
    IN  IF intersectionW <= 0 \/ intersectionH <= 0
        THEN [num |-> 0, den |-> 1]
        ELSE [num |-> intersectionArea, den |-> unionArea]

\* calculateIoU of the loader.  The edges x - w/2 and x + w/2 are kept
\* doubled (2x - w, 2x + w), so the areas are kept fourfold; the quotient is
\* num / den, and den is 0 where the code divides by zero.
LoaderCalculateIoU(bbox1, bbox2) ==
    LET x1 == bbox1[1]  y1 == bbox1[2]  w1 == bbox1[3]  h1 == bbox1[4]
        x2 == bbox2[1]  y2 == bbox2[2]  w2 == bbox2[3]  h2 == bbox2[4]
        xLeft == Max(2 * x1 - w1, 2 * x2 - w2)
        yTop == Max(2 * y1 - h1, 2 * y2 - h2)
        xRight == Min(2 * x1 + w1, 2 * x2 + w2)
        yBottom == Min(2 * y1 + h1, 2 * y2 + h2)
        intersectionArea == (xRight - xLeft) * (yBottom - yTop)
        bbox1Area == 4 * w1 * h1
        bbox2Area == 4 * w2 * h2
        unionArea == bbox1Area + bbox2Area - intersectionArea
    IN  IF xRight < xLeft \/ yBottom < yTop
        THEN [num |-> 0, den |-> 1]
        ELSE [num |-> intersectionArea, den |-> unionArea]

\* The IoU function of the object named: this.calculateIOU of the worker,
\* this.calculateIoU of the loader.
IoUOf(impl, bbox1, bbox2) ==
    IF impl = "worker" THEN CalculateIOU(bbox1, bbox2)
    ELSE LoaderCalculateIoU(bbox1, bbox2)

\* iou > threshold for a quotient iou and a threshold in hundredths, as
\* JavaScript compares: x / 0 is Infinity, -Infinity or NaN.
IouGreater(iou, threshold) ==
    IF iou.den > 0 THEN iou.num * 100 > threshold * iou.den
    ELSE IF iou.den < 0 THEN iou.num * 100 < threshold * iou.den
    ELSE iou.num > 0

\* detections.sort((a, b) => b.confidence - a.confidence): a stable sort,
\* built by inserting each element behind those that do not rank after it.
RECURSIVE SortByConfidence(_)
SortByConfidence(detections) ==
    IF detections = <<>>
    THEN <<>>
    ELSE LET d == detections[Len(detections)]
             front == SortByConfidence(SubSeq(detections, 1, Len(detections) - 1))
             n == Cardinality({i \in DOMAIN front : front[i].confidence >= d.confidence})
         IN  SubSeq(front, 1, n) \o <<d>> \o SubSeq(front, n + 1, Len(front))

\* The loop of applyNMS from position i of the sorted list on; iou names the
\* object whose IoU function the loop calls.
RECURSIVE KeepFrom(_, _, _, _, _)
KeepFrom(sorted, i, kept, threshold, iou) ==
    IF i > Len(sorted)
    THEN kept
    ELSE LET shouldKeep ==
                 \A k \in DOMAIN kept :
                     ~IouGreater(IoUOf(iou, sorted[i].bbox, kept[k].bbox), threshold)
         IN  KeepFrom(sorted, i + 1,
                      IF shouldKeep THEN Append(kept, sorted[i]) ELSE kept,
                      threshold, iou)

\* applyNMS of the worker, with this.model = m; it calls this.calculateIOU.
ApplyNMS(detections, m) ==
    KeepFrom(SortByConfidence(detections), 1, <<>>, m.nmsThreshold, "worker")

\* postprocessDetections with this.model = m.  output.dims is undefined for
\* an array, so reading outputShape[2] throws and the catch rethrows
\* 'Post-processing failed'.  A tensor is decoded and suppressed.
PostprocessDetections(output, m) ==
    IF "dims" \notin DOMAIN output
    THEN [ok |-> FALSE, error |-> "Post-processing failed"]
    ELSE [ok |-> TRUE, value |-> [items |-> ApplyNMS(DecodeFrom(output, 0), m)]]

\* Output tensors of the ONNX session, dims [1, 4 + classes, rows]: rows of
\* x, y, w, h and one score per class.
ModelOutputs ==
    {[dims |-> <<1, 6, 2>>, data |-> <<10, 10, 20, 20, 90, 30, 15, 15, 20, 20, 40, 80>>],
     [dims |-> <<1, 6, 2>>, data |-> <<10, 10, 20, 20, 60, 60, 200, 200, 20, 20, 50, 10>>],
     [dims |-> <<1, 6, 1>>, data |-> <<10, 10, 20, 20, 20, 30>>]}

\* runInference with this.model = m: the results it can settle with.  The
\* mock returns one of its arrays; the session branch returns the decoded
\* output or rejects.  A rejected result carries the rethrown message.
RunInference(m) ==
    IF m = NullModel
    THEN {[ok |-> FALSE, error |-> "Inference failed: Model not loaded"]}
    ELSE IF m.isMock
    THEN {[ok |-> TRUE, value |-> d] : d \in MockDetections}
    ELSE {[ok |-> TRUE, value |-> PostprocessDetections(o, m).value] : o \in ModelOutputs}
             \cup {[ok |-> FALSE, error |-> "Inference failed"]}

\* The outer loop of the loader's postprocessDetections from row i on, with
\* this.confidenceThreshold = confidence.  Its inner loop and its class
\* table are the worker's, word for word.
RECURSIVE LoaderDecodeFrom(_, _, _)
LoaderDecodeFrom(output, i, confidence) ==
    IF i >= output.dims[3]
    THEN <<>>
    ELSE LET base == i * output.dims[2]
             best == ScanClasses(output.data, base, output.dims[2] - 4, 0,
                                 [maxConfidence |-> 0, maxClassIndex |-> 0])
             x == At(output.data, base)
             y == At(output.data, base + 1)
             w == At(output.data, base + 2)
             h == At(output.data, base + 3)
         IN  (IF best.maxConfidence > confidence
              THEN <<[classId |-> best.maxClassIndex,
                      className |-> ClassName(best.maxClassIndex),
                      confidence |-> best.maxConfidence,
                      bbox |-> <<x, y, w, h>>,
                      centerX |-> x, centerY |-> y, width |-> w, height |-> h]>>
              ELSE <<>>)
             \o LoaderDecodeFrom(output, i + 1, confidence)

\* The loader's loop in which a suppressed detection still marks the ones
\* behind it (the test of suppressed.has(i) only skips the push).
RECURSIVE LoaderNmsFromChained(_, _, _, _, _, _)
LoaderNmsFromChained(sorted, i, filteredDetections, suppressed, threshold, iou) ==
    IF i > Len(sorted)
    THEN filteredDetections
    ELSE LET marked ==
                 {j \in (i + 1)..Len(sorted) :
                     /\ j \notin suppressed
                     /\ IouGreater(IoUOf(iou, sorted[i].bbox, sorted[j].bbox), threshold)}
         IN  LoaderNmsFromChained(sorted, i + 1,
                 IF i \in suppressed THEN filteredDetections
                 ELSE Append(filteredDetections, sorted[i]),
                 suppressed \cup marked, threshold, iou)

\* The outer loop of the loader's applyNMS from position i of the sorted
\* list on; suppressed holds the positions marked so far, iou names the
\* object whose IoU function the loop calls.
RECURSIVE LoaderNmsFrom(_, _, _, _, _, _)
LoaderNmsFrom(sorted, i, filteredDetections, suppressed, threshold, iou) ==
    IF i > Len(sorted)
    THEN filteredDetections
    ELSE IF i \in suppressed
    THEN LoaderNmsFrom(sorted, i + 1, filteredDetections, suppressed, threshold, iou)
    ELSE LET marked ==
                 {j \in (i + 1)..Len(sorted) :
                     /\ j \notin suppressed
                     /\ IouGreater(IoUOf(iou, sorted[i].bbox, sorted[j].bbox), threshold)}
         IN  LoaderNmsFrom(sorted, i + 1, Append(filteredDetections, sorted[i]),
                           suppressed \cup marked, threshold, iou)

\* applyNMS of the loader, with this.nmsThreshold = threshold; it calls
\* this.calculateIoU.
LoaderApplyNMS(detections, threshold) ==
    LoaderNmsFrom(SortByConfidence(detections), 1, <<>>, {}, threshold, "loader")

\* postprocessDetections of the loader
LoaderPostprocessDetections(output, confidence, nms) ==
    LoaderApplyNMS(LoaderDecodeFrom(output, 0, confidence), nms)

RelevantClasses ==
    {"person", "cell phone", "laptop", "book", "remote", "tv", "keyboard",
     "mouse", "bottle", "cup", "chair", "backpack", "handbag"}

\* filterRelevantDetections with 'cellphone' written for 'cell phone'.
FilterMisspelled(detections) ==
    SelectSeq(detections,
              LAMBDA d : d.className \in (RelevantClasses \ {"cell phone"}) \cup {"cellphone"})

\* filterRelevantDetections
FilterRelevantDetections(detections) ==
    SelectSeq(detections, LAMBDA d : d.className \in RelevantClasses)

\* const relevantClasses = [...] of the loader
LoaderRelevantClasses ==
    {"person", "cell phone", "laptop", "book", "remote", "tv", "keyboard",
     "mouse", "bottle", "cup", "chair", "backpack", "handbag"}

\* filterRelevantDetections of the loader
LoaderFilterRelevantDetections(detections) ==
    SelectSeq(detections, LAMBDA d : d.className \in LoaderRelevantClasses)

\* The message of the success branch of processQueue.
DetectionResults(frame, detections) ==
    [type |-> "detectionResults", detections |-> detections,
     timestamp |-> frame.timestamp, frameId |-> frame.id]

\* The message of the catch branch of processQueue.
FrameError(frame, message) ==
    [type |-> "error", error |-> message, frameId |-> frame.id]

\* ------------------------------------------------------------- scheduler
\* pop() in place of shift(): the newest frame is taken.
ShiftTakesLast(q) == [frame |-> q[Len(q)], rest |-> SubSeq(q, 1, Len(q) - 1)]

\* processingQueue[0] in place of shift(): the frame stays queued.
ShiftLeavesFrame(q) == [frame |-> Head(q), rest |-> q]

\* splice(0)[0] in place of shift(): the whole queue is removed.
ShiftDropsAll(q) == [frame |-> Head(q), rest |-> <<>>]

\* this.processingQueue.shift()
Shift(q) == [frame |-> Head(q), rest |-> Tail(q)]

\* processFrame without the isProcessing test.
ShouldStartAlways(processing) == TRUE

\* processFrame that only pushes and leaves the start to the polling loop.
ShouldStartNever(processing) == FALSE

\* if (!this.isProcessing) in processFrame
ShouldStart(processing) == ~processing

\* processQueue without its final setTimeout.
ScheduleNothing(timeouts) == timeouts

\* setTimeout(() => this.processQueue(), 0) at the end of processQueue
ScheduleContinuation(timeouts) == timeouts + 1

\* History: the calls of postprocessDetections made for one frame whose
\* runInference settled with r while this.model = m, in order; each entry
\* tells whether the argument was a tensor (it has dims).  The session branch
\* of runInference calls it on results.output0 before it returns, and
\* processQueue calls it on whatever runInference returned.
DecodeCalls(r, m) ==
    IF ~r.ok \/ "value" \notin DOMAIN r
    THEN <<>>
    ELSE (IF m # NullModel /\ ~m.isMock THEN <<TRUE>> ELSE <<>>)
         \o <<"dims" \in DOMAIN r.value>>

\* The part of processQueue after runInference has settled with result r:
\* postprocess, filter, post the result or the caught error, then schedule
\* the continuation.  timeouts is the number of continuations pending.
FinishFrame(frame, r, timeouts) ==
    LET post == IF r.ok THEN PostprocessDetections(r.value, model) ELSE r
        msg == IF post.ok
               THEN DetectionResults(frame, FilterRelevantDetections(post.value.items))
               ELSE FrameError(frame, post.error)
    IN  /\ outbox' = Append(outbox, msg)
        /\ answered' = Append(answered, [seq |-> frame.seq, pos |-> Len(outbox) + 1,
                                         decodes |-> DecodeCalls(r, model)])
        /\ pendingTimeouts' = ScheduleContinuation(timeouts)

\* processQueue, called with queue q, up to the point where it suspends in
\* runInference (the mock awaits a 50 ms timer) or ends in its catch branch
\* (preprocessFrame threw, or runInference threw before its await).
ProcessQueue(q, timeouts) ==
    IF Len(q) = 0
    THEN /\ isProcessing' = FALSE
         /\ processingQueue' = q
         /\ pendingTimeouts' = timeouts
         /\ UNCHANGED <<awaiting, outbox, answered>>
    ELSE LET s == Shift(q)
             pre == PreprocessFrame(s.frame.frameData)
         IN  /\ isProcessing' = TRUE
             /\ processingQueue' = s.rest
             /\ IF pre.ok /\ model # NullModel
                THEN /\ awaiting' = awaiting \cup {s.frame}
                     /\ pendingTimeouts' = timeouts
                     /\ UNCHANGED <<outbox, answered>>
                ELSE /\ \E r \in (IF pre.ok THEN RunInference(model) ELSE {pre}) :
                            FinishFrame(s.frame, r, timeouts)
                     /\ UNCHANGED awaiting

\* ----------------------------------------------------------------- actions
\* init() in which a step after loadYOLOModel throws: modelLoaded is posted,
\* then the catch of init posts modelError.
InitLoadedThenError ==
    /\ context = "worker"
    /\ ~initDone
    /\ initDone' = TRUE
    /\ model' = MockModel
    /\ isModelLoaded' = TRUE
    /\ outbox' = outbox \o <<[type |-> "modelLoaded", model |-> MockModel],
                             [type |-> "modelError", error |-> "setup failed"]>>
    /\ UNCHANGED <<handlerInstalled, loopStarted, processingQueue, isProcessing,
                   awaiting, pendingTimeouts, now, accepted, answered, updates,
                   submitted, infos, context, loaderVars, benchVars>>

\* init(): importScripts succeeds, loadYOLOModel installs the mock model and
\* posts modelLoaded, then the handler and the polling loop are set up.
InitLoaded ==
    /\ context = "worker"
    /\ ~initDone
    /\ initDone' = TRUE
    /\ model' = MockModel
    /\ isModelLoaded' = TRUE
    /\ outbox' = Append(outbox, [type |-> "modelLoaded", model |-> MockModel])
    /\ handlerInstalled' = TRUE
    /\ loopStarted' = TRUE
    /\ UNCHANGED <<processingQueue, isProcessing, awaiting, pendingTimeouts, now,
                   accepted, answered, updates, submitted, infos, context,
                   loaderVars, benchVars>>

\* init(): importScripts throws; the catch of init posts modelError and
\* neither the handler nor the loop is set up.
InitImportFails ==
    /\ context = "worker"
    /\ ~initDone
    /\ initDone' = TRUE
    /\ outbox' = Append(outbox, [type |-> "modelError", error |-> "import failed"])
    /\ UNCHANGED <<model, isModelLoaded, handlerInstalled, loopStarted,
                   processingQueue, isProcessing, awaiting, pendingTimeouts, now,
                   accepted, answered, updates, submitted, infos, context,
                   loaderVars, benchVars>>

\* A processFrame message is delivered to the worker.  When init failed
\* before setupMessageHandler no listener is set and nothing runs; otherwise
\* onmessage calls processFrame(data).
OnProcessFrame(frameData, rid, time) ==
    /\ context = "worker"
    /\ initDone
    /\ submitted < MaxFrames
    /\ submitted' = submitted + 1
    /\ IF ~handlerInstalled
       THEN UNCHANGED <<now, processingQueue, isProcessing, awaiting, pendingTimeouts,
                        outbox, accepted, answered>>
       ELSE IF ~isModelLoaded
       THEN /\ outbox' = Append(outbox, [type |-> "error", error |-> "Model not loaded"])
            /\ UNCHANGED <<now, processingQueue, isProcessing, awaiting,
                           pendingTimeouts, accepted, answered>>
       ELSE LET entry == [frameData |-> frameData, timestamp |-> time, id |-> rid,
                          seq |-> Len(accepted) + 1]
                q == Append(processingQueue, entry)
            IN  /\ time >= now
                /\ now' = time
                /\ accepted' = Append(accepted, entry)
                /\ IF ShouldStart(isProcessing)
                   THEN ProcessQueue(q, pendingTimeouts)
                   ELSE /\ processingQueue' = q
                        /\ UNCHANGED <<isProcessing, awaiting, pendingTimeouts,
                                       outbox, answered>>
    /\ UNCHANGED <<model, isModelLoaded, initDone, handlerInstalled, loopStarted,
                   updates, infos, context, loaderVars, benchVars>>

\* The 50 ms timer of the mock runInference fires: runInference returns its
\* array and processQueue resumes after its second await.
InferenceDone(frame) ==
    /\ frame \in awaiting
    /\ awaiting' = awaiting \ {frame}
    /\ \E r \in RunInference(model) : FinishFrame(frame, r, pendingTimeouts)
    /\ UNCHANGED <<model, isModelLoaded, processingQueue, isProcessing, initDone,
                   handlerInstalled, loopStarted, now, accepted, updates, submitted,
                   infos, context, loaderVars, benchVars>>

\* A setTimeout(() => this.processQueue(), 0) callback runs.
Continuation ==
    /\ pendingTimeouts > 0
    /\ ProcessQueue(processingQueue, pendingTimeouts - 1)
    /\ UNCHANGED <<model, isModelLoaded, initDone, handlerInstalled, loopStarted,
                   now, accepted, updates, submitted, infos, context, loaderVars,
                   benchVars>>

\* The polling callback without the isProcessing test: it moves on to the
\* next frame whatever the frame in flight does.
PollConditionNoFlag(q, processing) == Len(q) > 0

\* if (this.processingQueue.length > 0 && !this.isProcessing)
PollCondition(q, processing) == Len(q) > 0 /\ ~processing

\* The setInterval callback of startProcessingLoop runs.
Poll ==
    /\ loopStarted
    /\ IF PollCondition(processingQueue, isProcessing)
       THEN ProcessQueue(processingQueue, pendingTimeouts)
       ELSE UNCHANGED <<processingQueue, isProcessing, awaiting, pendingTimeouts,
                        outbox, answered>>
    /\ UNCHANGED <<model, isModelLoaded, initDone, handlerInstalled, loopStarted,
                   now, accepted, updates, submitted, infos, context, loaderVars,
                   benchVars>>

\* updateThresholds whose second test reads confidence in place of nms.
UpdateThresholdsWrongField(m, thresholds) ==
    [m EXCEPT
        !.confidenceThreshold =
            IF "confidence" \in DOMAIN thresholds THEN thresholds.confidence ELSE @,
        !.nmsThreshold =
            IF "confidence" \in DOMAIN thresholds THEN thresholds.confidence ELSE @]

\* updateThresholds of the worker: the fields of this.model after the call.
UpdateThresholds(m, thresholds) ==
    [m EXCEPT
        !.confidenceThreshold =
            IF "confidence" \in DOMAIN thresholds THEN thresholds.confidence ELSE @,
        !.nmsThreshold =
            IF "nms" \in DOMAIN thresholds THEN thresholds.nms ELSE @]

\* The acknowledgement with the two values written to each other's field.
ThresholdsUpdatedSwapped(m) ==
    [type |-> "thresholdsUpdated",
     thresholds |-> [confidence |-> m.nmsThreshold, nms |-> m.confidenceThreshold]]

\* The message updateThresholds posts, with this.model = m after the writes.
ThresholdsUpdated(m) ==
    [type |-> "thresholdsUpdated",
     thresholds |-> [confidence |-> m.confidenceThreshold, nms |-> m.nmsThreshold]]

\* onmessage with type 'updateThresholds': updateThresholds(data).
OnUpdateThresholds(thresholds) ==
    /\ handlerInstalled
    /\ updates < MaxUpdates
    /\ updates' = updates + 1
    /\ model' = UpdateThresholds(model, thresholds)
    /\ outbox' = Append(outbox, ThresholdsUpdated(model'))
    /\ UNCHANGED <<isModelLoaded, processingQueue, isProcessing, initDone,
                   handlerInstalled, loopStarted, awaiting, pendingTimeouts, now,
                   accepted, answered, submitted, infos, context, loaderVars,
                   benchVars>>

\* onmessage with type 'getModelInfo': sendModelInfo() posts this.model; the
\* message holds a structured clone, the fields as they are now.
OnGetModelInfo ==
    /\ handlerInstalled
    /\ infos < MaxInfos
    /\ infos' = infos + 1
    /\ outbox' = Append(outbox, [type |-> "modelInfo", model |-> model])
    /\ UNCHANGED <<model, isModelLoaded, processingQueue, isProcessing, initDone,
                   handlerInstalled, loopStarted, awaiting, pendingTimeouts, now,
                   accepted, answered, updates, submitted, context, loaderVars,
                   benchVars>>

\* Math.max(0.1, Math.min(1.0, v))
Clamp(v) == Max(MinThreshold, Min(MaxThreshold, v))

\* YOLOModelLoader.updateThresholds: the two fields after the call.
LoaderUpdateThresholds(confidence, nms, thresholds) ==
    [confidenceThreshold |->
        IF "confidence" \in DOMAIN thresholds THEN Clamp(thresholds.confidence)
        ELSE confidence,
     nmsThreshold |->
        IF "nms" \in DOMAIN thresholds THEN Clamp(thresholds.nms) ELSE nms]

\* A call of YOLOModelLoader.updateThresholds(thresholds).
LoaderUpdate(thresholds) ==
    /\ context = "page"
    /\ LET t == LoaderUpdateThresholds(confidenceThreshold, nmsThreshold, thresholds)
       IN  /\ confidenceThreshold' = t.confidenceThreshold
           /\ nmsThreshold' = t.nmsThreshold
    /\ UNCHANGED <<context, workerVars, benchVars, inferVars, loaderModel, loaderIsModelLoaded,
                   loaderPending, loaderEvents, loaderSessions, loaderReleased, loads>>

\* loadModel() is called and suspends in ort.InferenceSession.create.
LoaderLoadModel ==
    /\ context = "page"
    /\ loads < MaxLoads
    /\ loads' = loads + 1
    /\ loaderPending' = loaderPending + 1
    /\ UNCHANGED <<context, workerVars, benchVars, inferVars, confidenceThreshold, nmsThreshold,
                   loaderModel, loaderIsModelLoaded, loaderEvents, loaderSessions,
                   loaderReleased>>

\* InferenceSession.create resolves: loadModel stores the session, sets the
\* flag and emits modelLoaded.
LoaderLoadResolved ==
    /\ context = "page"
    /\ loaderPending > 0
    /\ loaderPending' = loaderPending - 1
    /\ loaderSessions' = loaderSessions + 1
    /\ loaderModel' = loaderSessions + 1
    /\ loaderIsModelLoaded' = TRUE
    /\ loaderEvents' = Append(loaderEvents, "modelLoaded")
    /\ UNCHANGED <<context, workerVars, benchVars, inferVars, confidenceThreshold, nmsThreshold,
                   loaderReleased, loads>>

\* ort is undefined or InferenceSession.create rejects: the catch of
\* loadModel emits modelError.
LoaderLoadRejected ==
    /\ context = "page"
    /\ loaderPending > 0
    /\ loaderPending' = loaderPending - 1
    /\ loaderEvents' = Append(loaderEvents, "modelError")
    /\ UNCHANGED <<context, workerVars, benchVars, inferVars, confidenceThreshold, nmsThreshold,
                   loaderModel, loaderIsModelLoaded, loaderSessions, loaderReleased,
                   loads>>

\* dispose() that releases the session and keeps the reference to it.
LoaderDisposeKeepsModel ==
    /\ context = "page"
    /\ IF loaderModel # 0
       THEN /\ loaderReleased' = Append(loaderReleased, loaderModel)
            /\ UNCHANGED loaderModel
       ELSE UNCHANGED <<loaderReleased, loaderModel>>
    /\ loaderIsModelLoaded' = FALSE
    /\ UNCHANGED <<context, workerVars, benchVars, inferVars, confidenceThreshold, nmsThreshold,
                   loaderPending, loaderEvents, loaderSessions, loads>>

\* dispose()
LoaderDispose ==
    /\ context = "page"
    /\ IF loaderModel # 0
       THEN /\ loaderReleased' = Append(loaderReleased, loaderModel)
            /\ loaderModel' = 0
       ELSE UNCHANGED <<loaderReleased, loaderModel>>
    /\ loaderIsModelLoaded' = FALSE
    /\ UNCHANGED <<context, workerVars, benchVars, inferVars, confidenceThreshold, nmsThreshold,
                   loaderPending, loaderEvents, loaderSessions, loads>>

\* runInference(tensorData) is called on the loader.  It throws 'Model not
\* loaded', or suspends in this.model.run.  confidence and nms record the
\* thresholds at the time of the call (history only).
LoaderRunInference ==
    /\ context = "page"
    /\ inferences < MaxInferences
    /\ inferences' = inferences + 1
    /\ IF ~loaderIsModelLoaded
       THEN /\ loaderResults' = Append(loaderResults,
                   [n |-> inferences + 1, ok |-> FALSE, error |-> "Model not loaded"])
            /\ UNCHANGED loaderInflight
       ELSE /\ loaderInflight' = loaderInflight \cup
                   {[n |-> inferences + 1, confidence |-> confidenceThreshold,
                     nms |-> nmsThreshold]}
            /\ UNCHANGED loaderResults
    /\ UNCHANGED <<context, workerVars, benchVars, confidenceThreshold, nmsThreshold,
                   loaderModel, loaderIsModelLoaded, loaderPending, loaderEvents,
                   loaderSessions, loaderReleased, loads>>

\* this.model.run resolves with output tensor o: runInference resumes and
\* returns postprocessDetections(o).
LoaderInferenceResolved(c, o) ==
    /\ context = "page"
    /\ c \in loaderInflight
    /\ loaderInflight' = loaderInflight \ {c}
    /\ loaderResults' = Append(loaderResults,
           [n |-> c.n, ok |-> TRUE, output |-> o,
            detections |-> LoaderPostprocessDetections(o, confidenceThreshold,
                                                       nmsThreshold),
            atCall |-> [confidence |-> c.confidence, nms |-> c.nms]])
    /\ UNCHANGED <<context, workerVars, benchVars, confidenceThreshold, nmsThreshold,
                   loaderModel, loaderIsModelLoaded, loaderPending, loaderEvents,
                   loaderSessions, loaderReleased, loads, inferences>>

\* this.model.run rejects: the catch of runInference rethrows.
LoaderInferenceRejected(c) ==
    /\ context = "page"
    /\ c \in loaderInflight
    /\ loaderInflight' = loaderInflight \ {c}
    /\ loaderResults' = Append(loaderResults,
           [n |-> c.n, ok |-> FALSE, error |-> "run failed"])
    /\ UNCHANGED <<context, workerVars, benchVars, confidenceThreshold, nmsThreshold,
                   loaderModel, loaderIsModelLoaded, loaderPending, loaderEvents,
                   loaderSessions, loaderReleased, loads, inferences>>

\* ------------------------------------------------------------ function bench
\* The pure stages of both pipelines, called directly: a bench run sets the
\* thresholds with updateThresholds, then makes one call and keeps what it
\* returned.  impl names the object called, "worker" or "loader".
Impls == {"worker", "loader"}

BenchInit ==
    /\ context = "bench"
    /\ model = MockModel
    /\ isModelLoaded = TRUE
    /\ processingQueue = <<>>
    /\ isProcessing = FALSE
    /\ initDone = TRUE
    /\ handlerInstalled = FALSE
    /\ loopStarted = FALSE
    /\ awaiting = {}
    /\ pendingTimeouts = 0
    /\ outbox = <<>>
    /\ now = 0
    /\ confidenceThreshold = DefaultConfidence
    /\ nmsThreshold = DefaultNms
    /\ loaderModel = 0
    /\ loaderIsModelLoaded = FALSE
    /\ loaderPending = 0
    /\ loaderEvents = <<>>
    /\ loaderSessions = 0
    /\ loaderReleased = <<>>
    /\ loads = 0
    /\ loaderInflight = {}
    /\ loaderResults = <<>>
    /\ inferences = 0
    /\ submitted = 0
    /\ infos = 0
    /\ call = [fn |-> "none"]
    /\ result = <<>>
    /\ accepted = <<>>
    /\ answered = <<>>
    /\ updates = 0

\* updateThresholds(t) on the worker's model and on the loader.
BenchUpdateThresholds(t) ==
    /\ context = "bench"
    /\ call.fn = "none"
    /\ updates < MaxUpdates
    /\ updates' = updates + 1
    /\ model' = UpdateThresholds(model, t)
    /\ LET l == LoaderUpdateThresholds(confidenceThreshold, nmsThreshold, t)
       IN  /\ confidenceThreshold' = l.confidenceThreshold
           /\ nmsThreshold' = l.nmsThreshold
    /\ UNCHANGED <<context, isModelLoaded, processingQueue, isProcessing, initDone,
                   handlerInstalled, loopStarted, awaiting, pendingTimeouts, outbox,
                   now, accepted, answered, submitted, infos, loaderModel,
                   loaderIsModelLoaded, loaderPending, loaderEvents, loaderSessions,
                   loaderReleased, loads, inferVars, benchVars>>

\* postprocessDetections(o): decoded is the list its loop pushed, detections
\* the list it returned.
BenchPostprocess(impl, o) ==
    /\ context = "bench"
    /\ call.fn = "none"
    /\ call' = [fn |-> "postprocessDetections", impl |-> impl, output |-> o]
    /\ result' =
         IF impl = "worker"
         THEN [decoded |-> DecodeFrom(o, 0),
               detections |-> PostprocessDetections(o, model).value.items]
         ELSE [decoded |-> LoaderDecodeFrom(o, 0, confidenceThreshold),
               detections |-> LoaderPostprocessDetections(o, confidenceThreshold,
                                                          nmsThreshold)]
    /\ UNCHANGED <<context, workerVars, loaderVars>>

\* applyNMS(detections)
BenchApplyNMS(impl, detections) ==
    /\ context = "bench"
    /\ call.fn = "none"
    /\ call' = [fn |-> "applyNMS", impl |-> impl, detections |-> detections]
    /\ result' = IF impl = "worker"
                 THEN ApplyNMS(detections, model)
                 ELSE LoaderApplyNMS(detections, nmsThreshold)
    /\ UNCHANGED <<context, workerVars, loaderVars>>

\* calculateIOU(bbox1, bbox2) of the worker, calculateIoU of the loader
BenchCalculateIoU(impl, bbox1, bbox2) ==
    /\ context = "bench"
    /\ call.fn = "none"
    /\ call' = [fn |-> "calculateIoU", impl |-> impl, bbox1 |-> bbox1, bbox2 |-> bbox2]
    /\ result' = IF impl = "worker"
                 THEN CalculateIOU(bbox1, bbox2)
                 ELSE LoaderCalculateIoU(bbox1, bbox2)
    /\ UNCHANGED <<context, workerVars, loaderVars>>

\* filterRelevantDetections(detections)
BenchFilter(impl, detections) ==
    /\ context = "bench"
    /\ call.fn = "none"
    /\ call' = [fn |-> "filterRelevantDetections", impl |-> impl,
                detections |-> detections]
    /\ result' = IF impl = "worker"
                 THEN FilterRelevantDetections(detections)
                 ELSE LoaderFilterRelevantDetections(detections)
    /\ UNCHANGED <<context, workerVars, loaderVars>>

\* The mock branch of the worker's runInference, Math.random() yielding r.
BenchMockInference(r) ==
    /\ context = "bench"
    /\ call.fn = "none"
    /\ model.isMock
    /\ call' = [fn |-> "runInference", impl |-> "worker", draws |-> r]
    /\ result' = MockInference(r).items
    /\ UNCHANGED <<context, workerVars, loaderVars>>

\* The conversion loop of preprocessFrame (worker) or preprocessImage
\* (loader) on the resized image data.
BenchPreprocess(impl, data) ==
    /\ context = "bench"
    /\ call.fn = "none"
    /\ call' = [fn |-> "preprocess", impl |-> impl, data |-> data]
    /\ result' = IF impl = "worker" THEN ToTensorData(data) ELSE LoaderToTensorData(data)
    /\ UNCHANGED <<context, workerVars, loaderVars>>

BenchNext ==
    \/ call.fn = "none" /\ \E t \in BenchThresholdMsgs : BenchUpdateThresholds(t)
    \/ call.fn = "none" /\ \E impl \in Impls, o \in BenchOutputs :
            BenchPostprocess(impl, o)
    \/ call.fn = "none" /\ \E impl \in Impls, d \in BenchLists :
            BenchApplyNMS(impl, d)
    \/ call.fn = "none" /\ \E impl \in Impls, b1 \in BenchBoxes, b2 \in BenchBoxes :
            BenchCalculateIoU(impl, b1, b2)
    \/ call.fn = "none" /\ \E impl \in Impls, d \in BenchLists : BenchFilter(impl, d)
    \/ call.fn = "none" /\ \E r \in MockDraws : BenchMockInference(r)
    \/ call.fn = "none" /\ \E impl \in Impls, d \in BenchImages :
            BenchPreprocess(impl, d)

BenchSpec == BenchInit /\ [][BenchNext]_vars

Next ==
    \/ InitLoaded
    \/ InitImportFails
    \/ \E fd \in FrameDatas, rid \in RandomIds, time \in Timestamps :
            OnProcessFrame(fd, rid, time)
    \/ \E f \in awaiting : InferenceDone(f)
    \/ Continuation
    \/ Poll
    \/ \E t \in ThresholdMsgs : OnUpdateThresholds(t)
    \/ OnGetModelInfo
    \/ \E t \in LoaderThresholdMsgs : LoaderUpdate(t)
    \/ LoaderLoadModel
    \/ LoaderLoadResolved
    \/ LoaderLoadRejected
    \/ LoaderDispose
    \/ LoaderRunInference
    \/ \E c \in loaderInflight, o \in ModelOutputs : LoaderInferenceResolved(c, o)
    \/ \E c \in loaderInflight : LoaderInferenceRejected(c)

Spec == Init /\ [][Next]_vars

\* The event loop runs every task that is ready: timers fire and their
\* callbacks run.  Messages and threshold updates are the environment's
\* and are not forced.
FairSpec ==
    /\ Spec
    /\ WF_vars(\E f \in awaiting : InferenceDone(f))
    /\ WF_vars(Continuation)

\* ==================================================================== claims
\* Frames are named by seq, their position in accepted.
QueuedSeqs == {processingQueue[i].seq : i \in DOMAIN processingQueue}
AnsweredSeqs == {answered[i].seq : i \in DOMAIN answered}

\* Dequeued by processQueue and not yet answered.
InFlight == {s \in 1..Len(accepted) : s \notin QueuedSeqs /\ s \notin AnsweredSeqs}

\* The i-th per-frame event and the queue entry it answers.
EventOf(i) == outbox[answered[i].pos]
FrameOf(i) == accepted[answered[i].seq]

\* Positions in outbox of detectionResults and of errors that name a frame.
PerFrameEvents ==
    {p \in DOMAIN outbox :
        \/ outbox[p].type = "detectionResults"
        \/ outbox[p].type = "error" /\ "frameId" \in DOMAIN outbox[p]}

\* C1: in every reachable state at most one frame is in flight (dequeued and
\* not yet answered with its terminal event).
C1_AtMostOneInFlight == Cardinality(InFlight) <= 1

\* A frame is in flight while another one waits in the queue.
C1_Witness == Cardinality(InFlight) = 1 /\ Len(processingQueue) >= 1

\* C2: terminal events are emitted in the order in which processFrame
\* accepted their frames, also when frames end in an error.
C2_FifoCompletion ==
    \A i, j \in DOMAIN answered : i < j => answered[i].seq < answered[j].seq

\* Three frames were answered, the first of them with an error.
C2_Witness == Len(answered) >= 3 /\ EventOf(1).type = "error"

\* C3: each accepted frame gets at most one terminal event, and every
\* detectionResults or per-frame error event in the outbox answers a frame
\* that was accepted and has left the queue.
C3_AtMostOneTerminalEvent ==
    /\ \A i, j \in DOMAIN answered : i # j => answered[i].seq # answered[j].seq
    /\ \A i \in DOMAIN answered :
          /\ answered[i].seq \in 1..Len(accepted)
          /\ answered[i].seq \notin QueuedSeqs
          /\ FrameOf(i) \notin awaiting
          /\ EventOf(i).frameId = FrameOf(i).id
    /\ PerFrameEvents = {answered[i].pos : i \in DOMAIN answered}

\* Two frames have been answered while a third is still queued.
C3_Witness == Len(answered) = 2 /\ Len(processingQueue) = 1

\* C4: with timers firing (weak fairness) every accepted frame is eventually
\* dequeued and answered with its terminal event.
C4_EveryFrameAnswered ==
    \A s \in 1..MaxFrames : (Len(accepted) >= s) ~> (s \in AnsweredSeqs)

\* A backlog was drained: every frame is answered and the scheduler is idle.
C4_Witness ==
    /\ Len(accepted) >= 2
    /\ AnsweredSeqs = 1..Len(accepted)
    /\ ~isProcessing

\* C5: a frame whose preprocessing and inference both complete is answered
\* with detectionResults, never with an error.  (The mock inference never
\* fails, so every frame that passes preprocessing is such a frame.)
C5_ValidFrameGetsResults ==
    \A i \in DOMAIN answered :
        PreprocessFrame(FrameOf(i).frameData).ok => EventOf(i).type = "detectionResults"

\* C6: a failing frame aborts alone.  The step that posts its error leaves the
\* rest of the queue, the model with its thresholds and the loaded flag as
\* they were, and every frame queued behind a failure is answered later.
C6_FailureStep ==
    /\ Len(answered') = Len(answered) + 1
    /\ outbox'[Len(outbox')].type = "error"

C6_RestUntouched ==
    LET s == answered'[Len(answered')].seq
    IN  /\ processingQueue' = SelectSeq(processingQueue, LAMBDA f : f.seq # s)
        /\ model' = model
        /\ isModelLoaded' = isModelLoaded

C6_FailureIsolated ==
    /\ [][C6_FailureStep => C6_RestUntouched]_vars
    /\ \A s \in 1..MaxFrames :
          (s \in QueuedSeqs /\ answered # <<>>) ~> (s \in AnsweredSeqs)

\* A frame failed in preprocessing and the frame behind it was answered too.
C6_Witness ==
    /\ Len(answered) >= 2
    /\ ~PreprocessFrame(FrameOf(1).frameData).ok
    /\ answered[2].seq = answered[1].seq + 1

\* C7: every terminal event carries the frameId and the timestamp recorded
\* when its frame was enqueued.
C7_EventsCarryIdAndTimestamp ==
    \A i \in DOMAIN answered :
        /\ "frameId" \in DOMAIN EventOf(i)
        /\ EventOf(i).frameId = FrameOf(i).id
        /\ "timestamp" \in DOMAIN EventOf(i)
        /\ EventOf(i).timestamp = FrameOf(i).timestamp

\* C8: the frameId of a terminal event is the identifier the caller sent
\* with the frame.
C8_FrameIdIsCallerId ==
    \A i \in DOMAIN answered :
        /\ "id" \in DOMAIN FrameOf(i).frameData
        /\ EventOf(i).frameId = FrameOf(i).frameData.id

\* C9: the stored thresholds of the worker and of the loader always lie in
\* [0.1, 1.0].
C9_ThresholdsInRange ==
    /\ model # NullModel =>
          /\ model.confidenceThreshold \in MinThreshold..MaxThreshold
          /\ model.nmsThreshold \in MinThreshold..MaxThreshold
    /\ confidenceThreshold \in MinThreshold..MaxThreshold
    /\ nmsThreshold \in MinThreshold..MaxThreshold

\* C10: updateThresholds leaves a threshold it was not given as it was, and
\* leaves the frame queue, isProcessing and the loaded flag unchanged, in the
\* worker and in the loader.
C10_UpdateKeepsTheRest ==
    [][ /\ \A t \in ThresholdMsgs :
              OnUpdateThresholds(t) =>
                  /\ "confidence" \notin DOMAIN t =>
                        model'.confidenceThreshold = model.confidenceThreshold
                  /\ "nms" \notin DOMAIN t =>
                        model'.nmsThreshold = model.nmsThreshold
        /\ updates' # updates =>
              /\ processingQueue' = processingQueue
              /\ isProcessing' = isProcessing
              /\ isModelLoaded' = isModelLoaded
        /\ \A t \in LoaderThresholdMsgs :
              LoaderUpdate(t) =>
                  /\ "confidence" \notin DOMAIN t =>
                        confidenceThreshold' = confidenceThreshold
                  /\ "nms" \notin DOMAIN t => nmsThreshold' = nmsThreshold
                  /\ loaderIsModelLoaded' = loaderIsModelLoaded
      ]_vars

\* The worker was given only a confidence while a frame was queued, or the
\* loader was given only an nms after its model was loaded.
C10_Witness ==
    \/ /\ model # NullModel
       /\ model.confidenceThreshold = 500
       /\ model.nmsThreshold = DefaultNms
       /\ Len(processingQueue) >= 1
       /\ isProcessing
    \/ /\ nmsThreshold = 70
       /\ confidenceThreshold = DefaultConfidence
       /\ loaderIsModelLoaded

\* ------------------------------------------------- claims on the pure stages
\* The thresholds stored in the object a bench call was made on.
StoredConfidence(impl) ==
    IF impl = "worker" THEN model.confidenceThreshold ELSE confidenceThreshold

StoredNms(impl) == IF impl = "worker" THEN model.nmsThreshold ELSE nmsThreshold

\* iou >= threshold for a quotient iou and a threshold in hundredths.
IouAtLeast(iou, threshold) ==
    \/ IouGreater(iou, threshold)
    \/ iou.den # 0 /\ iou.num * 100 = threshold * iou.den

\* C11: every detection postprocessDetections returns has a confidence
\* strictly greater than the confidenceThreshold stored when it decoded, also
\* after updateThresholds has changed that threshold from 0.5.
C11_ConfidenceAboveStored ==
    call.fn = "postprocessDetections" =>
        \A i \in DOMAIN result.detections :
            result.detections[i].confidence > StoredConfidence(call.impl)

\* C12: no two distinct detections applyNMS returns have an IoU greater than
\* or equal to the stored nmsThreshold (a candidate whose IoU with a kept
\* detection equals the threshold is discarded).
C12_NoPairAtOrAboveThreshold ==
    call.fn = "applyNMS" =>
        \A i, j \in DOMAIN result :
            i # j => ~IouAtLeast(IoUOf(call.impl, result[i].bbox, result[j].bbox),
                                 StoredNms(call.impl))

\* Two quotients are the same number; a division by zero gives the same
\* value (Infinity, -Infinity or NaN) when the numerators agree.
SameNumber(a, b) ==
    IF a.den = 0 \/ b.den = 0
    THEN a.den = 0 /\ b.den = 0 /\ a.num = b.num
    ELSE a.num * b.den = b.num * a.den

\* C13: both IoU functions are symmetric, IoU(A, B) = IoU(B, A) for every
\* pair of boxes, and IoU(A, A) = 1 for every box of positive width and
\* height.
C13_IoUSymmetric ==
    call.fn = "calculateIoU" =>
        /\ SameNumber(result, IoUOf(call.impl, call.bbox2, call.bbox1))
        /\ (call.bbox1 = call.bbox2 /\ call.bbox1[3] > 0 /\ call.bbox1[4] > 0) =>
              (result.den # 0 /\ result.num = result.den)

\* Two different boxes that overlap in part were compared: the IoU lies
\* strictly between 0 and 1.
C13_Witness ==
    /\ call.fn = "calculateIoU"
    /\ call.bbox1 # call.bbox2
    /\ call.bbox1[3] # call.bbox2[3]
    /\ result.den > 0
    /\ 0 < result.num
    /\ result.num < result.den

\* Row i (counted from 0) of output tensor o: its width, its scores by class
\* index, the greatest score and the lowest class index that has it.
RowWidth(o) == o.dims[2]
RowCount(o) == o.dims[3]
Score(o, i, j) == o.data[i * RowWidth(o) + 4 + j + 1]
ClassIndices(o) == 0..(RowWidth(o) - 5)
MaxScore(o, i) ==
    CHOOSE v \in {Score(o, i, j) : j \in ClassIndices(o)} :
        \A j \in ClassIndices(o) : Score(o, i, j) <= v
FirstBestClass(o, i) ==
    CHOOSE j \in ClassIndices(o) :
        /\ Score(o, i, j) = MaxScore(o, i)
        /\ \A k \in ClassIndices(o) : Score(o, i, k) = MaxScore(o, i) => j <= k

\* The threshold the decode loop compares a row's best score with: the
\* literal 0.5 in the worker, this.confidenceThreshold in the loader.
ComparedThreshold(impl) == IF impl = "worker" THEN DecodeThreshold ELSE confidenceThreshold

\* The rows whose best score exceeds the threshold.
EmittingRows(o, impl) ==
    {i \in 0..(RowCount(o) - 1) : MaxScore(o, i) > ComparedThreshold(impl)}

C15_AllowList ==
    {"person", "cell phone", "laptop", "book", "remote", "tv", "keyboard", "mouse",
     "bottle", "cup", "chair", "backpack", "handbag"}

\* The positions of a list whose className is on the allow-list.
C15_Kept(detections) ==
    {i \in DOMAIN detections : detections[i].className \in C15_AllowList}

\* A bench call of filterRelevantDetections is made in this step.
C15_FilterStep == call.fn = "none" /\ call'.fn = "filterRelevantDetections"

\* C15: filterRelevantDetections returns exactly the input detections whose
\* className is one of the 13 allow-listed classes, in input order, and the
\* call changes no state of either pipeline (model, thresholds, queue, flags).
C15_FilterExact ==
    /\ [](call.fn = "filterRelevantDetections" =>
            LET kept == C15_Kept(call.detections)
            IN  /\ Cardinality(C15_AllowList) = 13
                /\ Len(result) = Cardinality(kept)
                /\ \A i \in kept :
                      result[Cardinality({e \in kept : e <= i})] = call.detections[i])
    /\ [][C15_FilterStep =>
            /\ model' = model
            /\ confidenceThreshold' = confidenceThreshold
            /\ nmsThreshold' = nmsThreshold
            /\ processingQueue' = processingQueue
            /\ isProcessing' = isProcessing
            /\ isModelLoaded' = isModelLoaded
            /\ loaderIsModelLoaded' = loaderIsModelLoaded]_vars

\* A list of three with an irrelevant detection (car) in the middle was
\* filtered: the two others came back.
C15_Witness ==
    /\ call.fn = "filterRelevantDetections"
    /\ Len(call.detections) = 3
    /\ call.detections[2].className = "car"
    /\ call.detections[3].className = "cell phone"
    /\ Len(result) = 2

\* -------------------------------------------- claims on startup and the stores
\* Positions in outbox of the errors processFrame posts for an unloaded model.
ModelNotLoadedErrors ==
    {p \in DOMAIN outbox :
        outbox[p].type = "error" /\ outbox[p].error = "Model not loaded"}

\* C16: once initialisation or model loading has failed, every frame
\* submitted is answered with a 'Model not loaded' error event and none is
\* enqueued: no submitted frame stays without a response.
C16_FailedInitAnswersEveryFrame ==
    (context = "worker" /\ initDone /\ ~isModelLoaded) =>
        /\ Cardinality(ModelNotLoadedErrors) = submitted
        /\ processingQueue = <<>>
        /\ accepted = <<>>

\* Positions in outbox of the startup events.
StartupEvents ==
    {p \in DOMAIN outbox : outbox[p].type \in {"modelLoaded", "modelError"}}

\* C17: on either way through init the worker has posted exactly one startup
\* event, modelLoaded or modelError, and it posts no other one later.
C17_OneStartupEvent ==
    context = "worker" =>
        Cardinality(StartupEvents) = (IF initDone THEN 1 ELSE 0)

\* The worker started with modelLoaded and has posted two more messages since.
C17_Witness ==
    /\ initDone
    /\ Len(outbox) >= 3
    /\ outbox[1].type = "modelLoaded"
    /\ answered # <<>>

\* C18: an updateThresholds handled while an inference call is suspended does
\* not change the thresholds its frame is decoded and suppressed with: what a
\* call returns is what the thresholds stored when it started give.
C18_ThresholdsFixedPerFrame ==
    \A i \in DOMAIN loaderResults :
        loaderResults[i].ok =>
            loaderResults[i].detections =
                LoaderPostprocessDetections(loaderResults[i].output,
                                            loaderResults[i].atCall.confidence,
                                            loaderResults[i].atCall.nms)

\* C19: once modelLoaded is posted the model descriptor keeps every field it
\* was announced with, whatever is handled afterwards, and each modelInfo
\* message carries that same descriptor.
C19_DescriptorImmutable ==
    \A p \in DOMAIN outbox :
        outbox[p].type = "modelLoaded" =>
            /\ model = outbox[p].model
            /\ \A q \in DOMAIN outbox :
                  outbox[q].type = "modelInfo" => outbox[q].model = outbox[p].model

\* The class set of the stub backend as the claim fixes it.
C20_MockClassSet == {"person", "cell phone", "laptop", "book", "remote", "tv"}

\* C20: a call of the mock backend returns no detection or exactly one; its
\* className is in the mock class set, every member of which passes the
\* relevance filter; its confidence lies in [0.5, 0.9]; its box has positive
\* width and height.
C20_MockDetectionWellFormed ==
    call.fn = "runInference" =>
        /\ Len(result) <= 1
        /\ \A c \in C20_MockClassSet :
              FilterRelevantDetections(<<[className |-> c]>>) # <<>>
        /\ \A i \in DOMAIN result :
              /\ result[i].className \in C20_MockClassSet
              /\ result[i].confidence >= 50
              /\ result[i].confidence <= 90
              /\ result[i].bbox[3] > 0
              /\ result[i].bbox[4] > 0
              /\ result[i].width > 0
              /\ result[i].height > 0

\* A mock call returned one detection, of the last class and with the
\* highest confidence drawn.
C20_Witness ==
    /\ call.fn = "runInference"
    /\ Len(result) = 1
    /\ result[1].className = "tv"
    /\ result[1].confidence = 88

\* ------------------------------------------------ claims on the message table
\* Positions in outbox of the thresholdsUpdated messages.
ThresholdAcks == {p \in DOMAIN outbox : outbox[p].type = "thresholdsUpdated"}

\* C21: every updateThresholds message the worker handles is answered with
\* exactly one thresholdsUpdated message, posted in the same task, and that
\* message carries the confidence and nms stored in the model after the update.
C21_UpdateAcknowledged ==
    /\ [](context = "worker" => Cardinality(ThresholdAcks) = updates)
    /\ [][updates' # updates =>
            /\ Len(outbox') = Len(outbox) + 1
            /\ SubSeq(outbox', 1, Len(outbox)) = outbox
            /\ outbox'[Len(outbox')].type = "thresholdsUpdated"
            /\ outbox'[Len(outbox')].thresholds =
                  [confidence |-> model'.confidenceThreshold,
                   nms |-> model'.nmsThreshold]]_vars

\* An update that gave only a confidence was acknowledged while a frame was
\* in flight: the message carries the new confidence and the old nms.
C21_Witness ==
    /\ awaiting # {}
    /\ \E p \in ThresholdAcks :
          /\ outbox[p].thresholds = [confidence |-> 500, nms |-> DefaultNms]
          /\ model.confidenceThreshold = 500

\* C22: for each frame whose inference call returned, postprocessDetections
\* is applied exactly once, and its argument is the output tensor of the
\* backend, never a list of detections that is already decoded.
C22_DecodedOnceFromTensor ==
    \A i \in DOMAIN answered :
        PreprocessFrame(FrameOf(i).frameData).ok => answered[i].decodes = <<TRUE>>

\* ---------------------------------------------------- claims on the tensor
\* Pixels of the resized image, numbered row-major from 0.
PixelIndices == 0..(InputSize * InputSize - 1)

\* C23: the tensor preprocessing returns has length 3*N*N and is planar: the
\* red, green and blue bytes of pixel p, each divided by 255, are at indices
\* p, N*N + p and 2*N*N + p; the alpha byte is not stored.
C23_TensorPlanar ==
    call.fn = "preprocess" =>
        LET plane == InputSize * InputSize
        IN  /\ Len(result) = 3 * plane
            /\ \A p \in PixelIndices :
                  /\ result[p + 1] = [num |-> call.data[4 * p + 1], den |-> 255]
                  /\ result[plane + p + 1] = [num |-> call.data[4 * p + 2], den |-> 255]
                  /\ result[2 * plane + p + 1] =
                        [num |-> call.data[4 * p + 3], den |-> 255]

\* ------------------------------------------- claims on the two IoU functions
\* C24: the worker's calculateIOU and the loader's calculateIoU read a box
\* [a, b, w, h] the same way, as center and size, and so return the same IoU
\* for every pair of boxes.
C24_SameIoUInBoth ==
    call.fn = "calculateIoU" =>
        SameNumber(CalculateIOU(call.bbox1, call.bbox2),
                   LoaderCalculateIoU(call.bbox1, call.bbox2))

\* Width and height of the intersection of two boxes as the object called
\* reads them, corner and size in the worker, center and size in the loader
\* (there doubled); not positive when the boxes are disjoint or only touch.
IntersectionWidth(impl, b1, b2) ==
    IF impl = "worker"
    THEN Min(b1[1] + b1[3], b2[1] + b2[3]) - Max(b1[1], b2[1])
    ELSE Min(2 * b1[1] + b1[3], 2 * b2[1] + b2[3])
           - Max(2 * b1[1] - b1[3], 2 * b2[1] - b2[3])

IntersectionHeight(impl, b1, b2) ==
    IF impl = "worker"
    THEN Min(b1[2] + b1[4], b2[2] + b2[4]) - Max(b1[2], b2[2])
    ELSE Min(2 * b1[2] + b1[4], 2 * b2[2] + b2[4])
           - Max(2 * b1[2] - b1[4], 2 * b2[2] - b2[4])

\* C25: the IoU function returns exactly 0 whenever the intersection of the
\* two boxes has a width or a height that is not positive, boxes of zero
\* width or height included, and it never returns the undefined value of a
\* division of zero by zero.
C25_ZeroWithoutOverlap ==
    call.fn = "calculateIoU" =>
        /\ ~(result.num = 0 /\ result.den = 0)
        /\ (\/ IntersectionWidth(call.impl, call.bbox1, call.bbox2) <= 0
            \/ IntersectionHeight(call.impl, call.bbox1, call.bbox2) <= 0) =>
              (result.num = 0 /\ result.den # 0)

\* ------------------------------------------------- claims on the scheduler
\* The inference call of the frame in flight does not return in this step.
C26_StalledStep == awaiting # {} /\ awaiting \subseteq awaiting'

\* C26: as long as the inference call of the frame in flight has not
\* returned, no queued frame is dequeued and no terminal event is posted
\* (there is no timeout and no cancellation), while every processFrame
\* message delivered is still accepted and lengthens the queue.
C26_StuckInferenceStalls ==
    [][C26_StalledStep =>
          /\ awaiting' = awaiting
          /\ answered' = answered
          /\ PerFrameEvents' = PerFrameEvents
          /\ Len(processingQueue') >= Len(processingQueue)
          /\ SubSeq(processingQueue', 1, Len(processingQueue)) = processingQueue
          /\ submitted' # submitted =>
                /\ Len(accepted') = Len(accepted) + 1
                /\ processingQueue' = Append(processingQueue, accepted'[Len(accepted')])
      ]_vars

\* One frame is in flight, nothing has been answered, and two frames that
\* arrived since wait in the queue.
C26_Witness ==
    /\ Cardinality(awaiting) = 1
    /\ answered = <<>>
    /\ Len(processingQueue) = 2
    /\ \A f \in awaiting : \A i \in DOMAIN processingQueue : f.seq < processingQueue[i].seq

\* The number of frames taken from the queue so far.
Dequeued == Len(accepted) - Len(processingQueue)

\* C27: between the tasks of the worker isProcessing is false only when the
\* queue is empty, so the condition of the 100 ms polling callback (queue not
\* empty and not processing) is never true; every step that takes a frame
\* from the queue is a processFrame message or the setTimeout(0) continuation
\* of processQueue.
C27_PollNeverStarts ==
    /\ [](context = "worker" => (~isProcessing => processingQueue = <<>>))
    /\ [][Dequeued' > Dequeued =>
            \/ \E fd \in FrameDatas, rid \in RandomIds, time \in Timestamps :
                    OnProcessFrame(fd, rid, time)
            \/ Continuation]_vars

\* A frame has been answered and its continuation has not run yet: a frame
\* waits in the queue, none is in flight, and isProcessing is still true.
C27_Witness ==
    /\ loopStarted
    /\ pendingTimeouts = 1
    /\ awaiting = {}
    /\ Len(processingQueue) >= 1
    /\ isProcessing

\* -------------------------------------------- claims on the two NMS loops
\* C28: run with the same IoU function, the same threshold and the same
\* input list, the keep-unless-overlapping loop of the worker and the
\* mark-as-suppressed loop of the loader return the same detections in the
\* same order; the order is confidence-descending and the first detection of
\* the highest confidence in the input is always kept.
C28_NmsLoopsAgree ==
    call.fn = "applyNMS" =>
        LET sorted == SortByConfidence(call.detections)
            threshold == StoredNms(call.impl)
        IN  /\ result = KeepFrom(sorted, 1, <<>>, threshold, call.impl)
            /\ result = LoaderNmsFrom(sorted, 1, <<>>, {}, threshold, call.impl)
            /\ \A i, j \in DOMAIN result :
                  i < j => result[i].confidence >= result[j].confidence
            /\ call.detections # <<>> =>
                  /\ result # <<>>
                  /\ \A k \in DOMAIN call.detections :
                        call.detections[k].confidence <= result[1].confidence
                  /\ result[1] =
                        call.detections[
                            CHOOSE k \in DOMAIN call.detections :
                                /\ call.detections[k].confidence = result[1].confidence
                                /\ \A m \in DOMAIN call.detections :
                                      call.detections[m].confidence = result[1].confidence
                                          => k <= m]

\* A chain of three was suppressed at the default threshold: the middle one
\* overlaps both neighbours and is dropped, the last one does not overlap the
\* first and is kept.
C28_Witness ==
    /\ call.fn = "applyNMS"
    /\ Len(call.detections) = 3
    /\ StoredNms(call.impl) = DefaultNms
    /\ call.detections[1].className = "cup"
    /\ Len(result) = 2
    /\ result[1].className = "laptop"
    /\ result[2].className = "cup"

\* ------------------------------------------------ claims on the detections
\* A detection names its class by the class table and its box repeats its
\* center and size.
C29_Consistent(d) ==
    /\ d.classId + 1 \in DOMAIN ClassNames
    /\ d.className = ClassNames[d.classId + 1]
    /\ d.bbox = <<d.centerX, d.centerY, d.width, d.height>>

\* The detections a bench call on the worker produced.
C29_Produced ==
    IF call.fn = "runInference" THEN result
    ELSE IF call.fn = "postprocessDetections" /\ call.impl = "worker"
    THEN result.decoded
    ELSE <<>>

\* C29: every detection the worker produces, in decode or in the stub
\* backend, has className = classNames[classId] for the table of 80 names and
\* bbox = [centerX, centerY, width, height].
C29_DetectionsConsistent ==
    /\ Len(ClassNames) = 80
    /\ \A i \in DOMAIN C29_Produced : C29_Consistent(C29_Produced[i])

\* ------------------------------------------- claims on the loader lifecycle
\* The sessions released so far.
ReleasedSessions == {loaderReleased[i] : i \in DOMAIN loaderReleased}

\* A loadModel call has succeeded and no dispose has followed it: the session
\* created last has not been released.
C30_Usable == loaderSessions > 0 /\ loaderSessions \notin ReleasedSessions

\* Steps of the lifecycle, told by the histories they extend.
C30_RunStep == inferences' = inferences + 1
C30_LoadFailedStep == loaderPending' = loaderPending - 1 /\ loaderSessions' = loaderSessions
C30_ReleaseStep == Len(loaderReleased') > Len(loaderReleased)

\* C30: runInference fails with 'Model not loaded' exactly when no loadModel
\* has succeeded since the last dispose; a loadModel that fails reports
\* modelError and does not set isModelLoaded (it stays false when no model
\* was loaded); dispose releases a session at most once, leaves the loader
\* unloaded, and changes nothing when it is called again.
C30_LoaderLifecycle ==
    /\ [](context = "page" =>
            /\ loaderIsModelLoaded = C30_Usable
            /\ \A i, j \in DOMAIN loaderReleased :
                  i # j => loaderReleased[i] # loaderReleased[j]
            /\ ReleasedSessions \subseteq 1..loaderSessions
            /\ (~C30_Usable => ~ENABLED <<LoaderDispose>>_vars))
    /\ [][C30_RunStep =>
            IF C30_Usable
            THEN loaderResults' = loaderResults /\ loaderInflight' # loaderInflight
            ELSE /\ loaderInflight' = loaderInflight
                 /\ Len(loaderResults') = Len(loaderResults) + 1
                 /\ ~loaderResults'[Len(loaderResults')].ok
                 /\ loaderResults'[Len(loaderResults')].error = "Model not loaded"]_vars
    /\ [][C30_LoadFailedStep =>
            /\ loaderEvents' = Append(loaderEvents, "modelError")
            /\ loaderIsModelLoaded' = loaderIsModelLoaded
            /\ loaderModel' = loaderModel
            /\ ~C30_Usable => ~loaderIsModelLoaded']_vars
    /\ [][C30_ReleaseStep =>
            /\ loaderReleased' = Append(loaderReleased, loaderModel)
            /\ loaderModel' = 0
            /\ ~loaderIsModelLoaded']_vars

\* A session was loaded and disposed of, a runInference call then failed
\* with 'Model not loaded', and a second loadModel failed.
C30_Witness ==
    /\ loaderReleased = <<1>>
    /\ ~loaderIsModelLoaded
    /\ loaderResults # <<>>
    /\ ~loaderResults[1].ok
    /\ loaderResults[1].error = "Model not loaded"
    /\ loaderEvents = <<"modelLoaded", "modelError">>

====
